---- MODULE Spec2Model ----
(***************************************************************************)
(* Step execution and variable substitution engine of api-scenario        *)
(* (pkg/controller/step_ctrl.go).                                          *)
(*                                                                         *)
(* A Go string is a sequence of tokens: a character, a placeholder         *)
(* "{{name}}", or (in a header name or a JSON property) a key name.        *)
(* The Variable Store (pkg/context) maps names to strings.  Durations are  *)
(* counted in microseconds.                                                *)
(***************************************************************************)
EXTENDS Integers, Sequences, FiniteSets, TLC

VARIABLES
    store,       \* the process-wide Variable Store: name -> string
    overrides,   \* viper "headers" configuration: header name -> string
    pc,          \* position of the caller / of request() inside Run
    step,        \* the step handed to Run
    result,      \* the model.ResultStep under construction / returned
    err,         \* the error returned by Run
    store0,      \* the Variable Store as it was when Run was entered
    sendCalls,   \* number of client.Send calls made by the current Run
    sendOutcome, \* what client.Send returned in the current Run
    assertLog,   \* assertions handed to assertionCtrl.Assert by the current Run
    createdFrom  \* for each record of VariableCreated, the index of its declaration

vars == <<store, overrides, pc, step, result, err, store0, sendCalls,
          sendOutcome, assertLog, createdFrom>>

----------------------------------------------------------------------------
(* Bounds *)

MaxVars == 2       \* declarations in the list handed to the extractor
MaxAsserts == 2    \* assertions declared by one step

----------------------------------------------------------------------------
(* Strings *)

Names == {"a", "b"}

Ph(n) == "{{" \o n \o "}}"

IsPh(tok) == \E n \in Names : tok = Ph(n)

PhName(tok) == CHOOSE n \in Names : tok = Ph(n)

Digit(d) == <<"0", "1", "2", "3", "4", "5", "6", "7", "8", "9">>[d + 1]

RECURSIVE FormatInt(_)
FormatInt(n) ==
    IF n < 0 THEN <<"-">> \o FormatInt(0 - n)
    ELSE IF n < 10 THEN <<Digit(n)>>
    ELSE FormatInt(n \div 10) \o <<Digit(n % 10)>>

FormatBool(b) == IF b THEN <<"t", "r", "u", "e">> ELSE <<"f", "a", "l", "s", "e">>

\* fmt.Sprintf("%g", v) of a float64 v = tenths / 10 with 0 <= v < 1e21:
\* the shortest decimal that round-trips, without trailing zeros.
FormatG(tenths) ==
    IF tenths % 10 = 0 THEN FormatInt(tenths \div 10)
    ELSE FormatInt(tenths \div 10) \o <<".", Digit(tenths % 10)>>

\* time.Duration.Round(m) for a non-negative duration d.
DurationRound(d, m) ==
    LET r == d % m
    IN  IF r + r < m THEN d - r ELSE d + m - r

Millisecond == 1000

----------------------------------------------------------------------------
(* Variable Store (pkg/context) *)

EmptyStore == [n \in {} |-> <<>>]

Add(s, name, value) ==
    [n \in (DOMAIN s) \cup {name} |-> IF n = name THEN value ELSE s[n]]

RECURSIVE Patch(_, _)
Patch(s, str) ==
    IF str = <<>> THEN <<>>
    ELSE LET tok == Head(str)
             out == IF IsPh(tok) /\ PhName(tok) \in DOMAIN s
                    THEN s[PhName(tok)]
                    ELSE <<tok>>
         IN  out \o Patch(s, Tail(str))

----------------------------------------------------------------------------
(* Responses (pkg/model) and the JSON query (jsonq, pkg/util) *)

JString(v) == [t |-> "string", s |-> v]
JBool(v) == [t |-> "bool", b |-> v]
JNumber(v) == [t |-> "number", tenths |-> v]
JObject(v) == [t |-> "object", kids |-> v]
JArray == [t |-> "array"]
JNull == [t |-> "null"]

\* util.JsonConvertKeyName: "user.age" becomes the path <<"user", "age">>.
RECURSIVE JsonConvertKeyName(_)
JsonConvertKeyName(property) ==
    IF property = <<>> THEN <<>>
    ELSE IF Head(property) = "." THEN JsonConvertKeyName(Tail(property))
    ELSE <<Head(property)>> \o JsonConvertKeyName(Tail(property))

\* jsonq.JsonQuery.Interface: the value at the path, or (nil, error) when a
\* key is missing, when the path enters a value that is no object, or when the
\* value found is nil.
RECURSIVE Query(_, _)
Query(node, path) ==
    IF path = <<>>
    THEN IF node.t = "null" THEN [err |-> TRUE, val |-> JNull]
                            ELSE [err |-> FALSE, val |-> node]
    ELSE IF node.t = "object" /\ Head(path) \in DOMAIN node.kids
         THEN Query(node.kids[Head(path)], Tail(path))
         ELSE [err |-> TRUE, val |-> JNull]

XReqId == <<"X-Req-Id">>
XEmpty == <<"X-Empty">>
XNone == <<"X-None">>

\* what client.Send hands back: status, headers and a body that is valid JSON
\* (Body is its decoded tree) or is not
Res1 ==
    [StatusCode |-> 200, valid |-> TRUE,
     Header |-> (XReqId :> << <<"a", "b", "c">>, <<"d">> >>) @@ (XEmpty :> <<>>),
     Body |-> JObject(
         (("msg" :> JString(<<"h", "i">>)) @@ ("ok" :> JBool(TRUE)) @@
          ("user" :> JObject("age" :> JNumber(300))) @@
          ("list" :> JArray) @@ ("nil" :> JNull)))]

Res2 ==
    [StatusCode |-> 404, valid |-> TRUE,
     Header |-> (XReqId :> << <<"x">> >>),
     Body |-> JObject(
         (("msg" :> JString(<<Ph("b")>>)) @@ ("ok" :> JBool(FALSE)) @@
          ("user" :> JObject("age" :> JNumber(15)))))]

ResBad == [StatusCode |-> 200, valid |-> FALSE, Header |-> (XReqId :> << <<"x">> >>), Body |-> JNull]

Elapsed == {1500, 123600}

\* what client.Send returns and the time it took
Sent == {<<Res1, 123600>>, <<Res2, 1500>>, <<ResBad, 1500>>}

\* model.NewResponse: the parsed response, or an error when the body does not parse
NewResponse(res, elapsed) ==
    [err |-> ~res.valid,
     response |-> [StatusCode |-> res.StatusCode, Header |-> res.Header,
                   Body |-> res.Body, TimeElapsed |-> elapsed]]

Responses == {NewResponse(res, e).response : res \in {Res1, Res2}, e \in Elapsed}

\* the zero value model.Response{}
NoResponse == [StatusCode |-> 0, Header |-> <<>>, Body |-> JNull, TimeElapsed |-> 0]

----------------------------------------------------------------------------
(* Response Extractor *)

Created(name, value) == [Key |-> name, NewValue |-> value, Err |-> "nil", Type |-> "Created"]

CreatedErr(name, e) == [Key |-> name, NewValue |-> <<>>, Err |-> e, Type |-> "Created"]

\* AddAndRecord as it would be if the store kept the first value of a name
AddAndRecord_KeepsFirst(acc, i, name, value) ==
    [store |-> IF name \in DOMAIN acc.store THEN acc.store ELSE Add(acc.store, name, value),
     result |-> Append(acc.result, Created(name, value)),
     from |-> Append(acc.from, i)]

\* AddAndRecord as it would be if the record were appended without the value
\* being added to the store
AddAndRecord_RecordOnly(acc, i, name, value) ==
    [store |-> acc.store,
     result |-> Append(acc.result, Created(name, value)),
     from |-> Append(acc.from, i)]

\* context.GetContext().Add(name, value) followed by the append of the record
AddAndRecord(acc, i, name, value) ==
    [store |-> Add(acc.store, name, value),
     result |-> Append(acc.result, Created(name, value)),
     from |-> Append(acc.from, i)]

\* RecordErr as it would be if a failure stored the empty value
RecordErr_StoresEmpty(acc, i, name, e) ==
    [store |-> Add(acc.store, name, <<>>),
     result |-> Append(acc.result, CreatedErr(name, e)),
     from |-> Append(acc.from, i)]

\* the append of an error-carrying record
RecordErr(acc, i, name, e) ==
    [store |-> acc.store,
     result |-> Append(acc.result, CreatedErr(name, e)),
     from |-> Append(acc.from, i)]

\* the ResponseJson case of the loop body
attachJson(response, variable, i, acc) ==
    LET jqPath == JsonConvertKeyName(variable.Property)
        q == Query(response.Body, jqPath)
        acc1 == IF q.err THEN RecordErr(acc, i, variable.Name, "query") ELSE acc
        value == q.val
    IN  CASE value.t = "string" -> AddAndRecord(acc1, i, variable.Name, value.s)
          [] value.t = "bool" -> AddAndRecord(acc1, i, variable.Name, FormatBool(value.b))
          [] value.t = "number" -> AddAndRecord(acc1, i, variable.Name, FormatG(value.tenths))
          [] OTHER -> RecordErr(acc1, i, variable.Name, "type")

\* the ResponseTime case as it would be if the duration were divided without
\* being rounded first
attachTime_Truncates(response, variable, i, acc) ==
    LET value == FormatInt(response.TimeElapsed \div Millisecond)
    IN  AddAndRecord(acc, i, variable.Name, value)

\* the ResponseTime case of the loop body
attachTime(response, variable, i, acc) ==
    LET value == FormatInt(DurationRound(response.TimeElapsed, Millisecond) \div Millisecond)
    IN  AddAndRecord(acc, i, variable.Name, value)

\* the ResponseStatus case of the loop body
attachStatus(response, variable, i, acc) ==
    LET value == FormatInt(response.StatusCode)
    IN  AddAndRecord(acc, i, variable.Name, value)

\* attachHeader as it would be if it took the last entry of the header
attachHeader_Last(response, variable, i, acc) ==
    LET header == IF variable.Property \in DOMAIN response.Header
                  THEN response.Header[variable.Property]
                  ELSE <<>>
    IN  IF Len(header) > 0
        THEN AddAndRecord(acc, i, variable.Name, header[Len(header)])
        ELSE acc

\* the ResponseHeader case of the loop body; a header the map does not hold
\* reads as the nil slice
attachHeader(response, variable, i, acc) ==
    LET header == IF variable.Property \in DOMAIN response.Header
                  THEN response.Header[variable.Property]
                  ELSE <<>>
    IN  IF Len(header) > 0
        THEN AddAndRecord(acc, i, variable.Name, header[1])
        ELSE acc

\* one iteration as it would be if the test of the empty name were missing
attachOne_NoSkip(response, variable, i, acc) ==
    CASE variable.Source = "ResponseTime" -> attachTime(response, variable, i, acc)
      [] variable.Source = "ResponseStatus" -> attachStatus(response, variable, i, acc)
      [] variable.Source = "ResponseHeader" -> attachHeader(response, variable, i, acc)
      [] variable.Source = "ResponseJson" -> attachJson(response, variable, i, acc)
      [] OTHER -> acc

\* one iteration of the loop of attachVariablesToContext
attachOne(response, variable, i, acc) ==
    IF variable.Name = "" THEN acc
    ELSE CASE variable.Source = "ResponseTime" -> attachTime(response, variable, i, acc)
           [] variable.Source = "ResponseStatus" -> attachStatus(response, variable, i, acc)
           [] variable.Source = "ResponseHeader" -> attachHeader(response, variable, i, acc)
           [] variable.Source = "ResponseJson" -> attachJson(response, variable, i, acc)
           [] OTHER -> acc

RECURSIVE attachLoop(_, _, _, _)
attachLoop(response, vs, i, acc) ==
    IF i > Len(vs) THEN acc
    ELSE attachLoop(response, vs, i + 1, attachOne(response, vs[i], i, acc))

\* attachVariablesToContext run against Variable Store s: the store it leaves,
\* the records it returns, and the declaration each record comes from.
attachVariablesToContext(response, vs, s) ==
    attachLoop(response, vs, 1, [store |-> s, result |-> <<>>, from |-> <<>>])

----------------------------------------------------------------------------
(* Request Builder *)

NoMap == [k \in {} |-> <<>>]

\* the zero value rest.Request{}
NoRequest == [Method |-> "", Headers |-> NoMap, QueryParams |-> NoMap,
              Body |-> <<>>, BaseURL |-> <<>>]

\* the zero value model.ResultStep{}
NoResult == [StepType |-> "", Request |-> NoRequest, Response |-> NoResponse,
             StepTime |-> 0, Assertion |-> <<>>, VariableApplied |-> <<>>,
             VariableCreated |-> <<>>]

\* model.Step.ExtractUrl: base URL and query parameters of the URL, or an error
ExtractUrl(st) ==
    [err |-> st.URL.malformed, baseUrl |-> st.URL.base, queryParams |-> st.URL.query]

Used(name, value) == [Key |-> name, NewValue |-> value, Err |-> "nil", Type |-> "Used"]

\* patch: the patched string and the slice of records it leaves
patch(s, initial, name, variables) ==
    LET initialValue == initial
        patchedValue == Patch(s, initial)
    IN  [value |-> patchedValue,
         variables |-> IF initialValue # patchedValue
                       THEN Append(variables, Used(name, patchedValue))
                       ELSE variables]

\* the orders in which a range over a map with these keys can visit them
Orders(keys) ==
    {o \in [1..Cardinality(keys) -> keys] : \A i, j \in DOMAIN o : i # j => o[i] # o[j]}

ParamName(key) == "params[" \o key \o "]"

HeaderName(key) == "headers." \o key

\* for key, value := range m { m[key] = patch(value, name(key), &result) },
\* the range visiting the keys in the given order
RECURSIVE patchParams(_, _, _, _)
patchParams(s, m, order, variables) ==
    IF order = <<>> THEN [m |-> m, variables |-> variables]
    ELSE LET key == Head(order)
             p == patch(s, m[key], ParamName(key), variables)
         IN  patchParams(s, [m EXCEPT ![key] = p.value], Tail(order), p.variables)

RECURSIVE patchHeaders(_, _, _, _)
patchHeaders(s, m, order, variables) ==
    IF order = <<>> THEN [m |-> m, variables |-> variables]
    ELSE LET key == Head(order)
             p == patch(s, m[key], HeaderName(key), variables)
         IN  patchHeaders(s, [m EXCEPT ![key] = p.value], Tail(order), p.variables)

\* headers of the step flattened to their first value
FlatHeaders(st) ==
    [key \in {k \in DOMAIN st.Headers : Len(st.Headers[k]) > 0} |-> st.Headers[key][1]]

\* the merge as it would be if the headers of the configuration were never
\* laid over those of the step
MergedHeaders_NoOverrides(st, s, ov) ==
    FlatHeaders(st)

\* the merge as it would be if a header of the step kept its value against
\* the configuration
MergedHeaders_StepWins(st, s, ov) ==
    [key \in (DOMAIN FlatHeaders(st)) \cup (DOMAIN ov) |->
        IF key \in DOMAIN FlatHeaders(st) THEN FlatHeaders(st)[key] ELSE Patch(s, ov[key])]

\* ... with the headers of the configuration laid over them, each patched
MergedHeaders(st, s, ov) ==
    [key \in (DOMAIN FlatHeaders(st)) \cup (DOMAIN ov) |->
        IF key \in DOMAIN ov THEN Patch(s, ov[key]) ELSE FlatHeaders(st)[key]]

\* convertAndPatchToHttpRequest as it would be if the error of ExtractUrl
\* were dropped
convertAndPatchToHttpRequest_IgnoresErr(st, s, ov, qOrder, hOrder) ==
    LET u == ExtractUrl(st)
        headers == MergedHeaders(st, s, ov)
        b == patch(s, st.Body, "body", <<>>)
        url == patch(s, u.baseUrl, "URL", b.variables)
        q == patchParams(s, u.queryParams, qOrder, url.variables)
        h == patchHeaders(s, headers, hOrder, q.variables)
    IN  [err |-> FALSE,
         req |-> [Method |-> st.Method, Headers |-> h.m, QueryParams |-> q.m,
                  Body |-> b.value, BaseURL |-> url.value],
         result |-> h.variables]

convertAndPatchToHttpRequest(st, s, ov, qOrder, hOrder) ==
    LET u == ExtractUrl(st)
        headers == MergedHeaders(st, s, ov)
        b == patch(s, st.Body, "body", <<>>)
        url == patch(s, u.baseUrl, "URL", b.variables)
        q == patchParams(s, u.queryParams, qOrder, url.variables)
        h == patchHeaders(s, headers, hOrder, q.variables)
    IN  IF u.err
        THEN [err |-> TRUE, req |-> NoRequest, result |-> <<>>]
        ELSE [err |-> FALSE,
              req |-> [Method |-> st.Method, Headers |-> h.m, QueryParams |-> q.m,
                       Body |-> b.value, BaseURL |-> url.value],
              result |-> h.variables]

----------------------------------------------------------------------------
(* Inputs *)

Decl(name, source, property) == [Name |-> name, Source |-> source, Property |-> property]

UserAge == <<"user", ".", "age">>

\* every source, every kind of JSON leaf, failing queries, empty names
Decls ==
    {Decl(n, "ResponseTime", <<>>) : n \in Names \cup {""}}
    \cup {Decl(n, "ResponseStatus", <<>>) : n \in Names \cup {""}}
    \cup {Decl(n, "ResponseHeader", h) : n \in Names, h \in {XReqId, XEmpty, XNone}}
    \cup {Decl(n, "ResponseJson", q) : n \in Names,
            q \in {<<"msg">>, <<"ok">>, UserAge, <<"user">>, <<"list">>, <<"nil">>,
                   <<"missing">>, <<"msg", ".", "x">>}}
    \cup {Decl("", "ResponseJson", <<"msg">>), Decl("", "ResponseJson", <<"missing">>),
          Decl("", "ResponseHeader", XReqId)}

\* the declarations of the steps of a scenario run
StepDecls ==
    {Decl("a", "ResponseJson", <<"msg">>), Decl("a", "ResponseHeader", XReqId),
     Decl("a", "ResponseJson", <<"missing">>), Decl("b", "ResponseStatus", <<>>)}

SeqsUpTo(S, n) == UNION {[1..k -> S] : k \in 0..n}

Url(base, query) == [malformed |-> FALSE, base |-> base, query |-> query]

BadUrl == [malformed |-> TRUE, base |-> <<>>, query |-> NoMap]

RequestOf(url, headers, body, assertions, variables) ==
    [StepType |-> "request", Duration |-> 0, Method |-> "GET", URL |-> url,
     Headers |-> headers, Body |-> body, Assertions |-> assertions,
     Variables |-> variables]

PauseOf(d) ==
    [StepType |-> "pause", Duration |-> d, Method |-> "", URL |-> Url(<<>>, NoMap),
     Headers |-> NoMap, Body |-> <<>>, Assertions |-> <<>>, Variables |-> <<>>]

NoStep == [PauseOf(0) EXCEPT !.StepType = ""]

\* the URL, headers and body of the request steps of a scenario run
Shapes ==
    {[url |-> BadUrl, headers |-> NoMap, body |-> <<Ph("a")>>],
     [url |-> Url(<<"u">>, NoMap), headers |-> NoMap, body |-> <<>>],
     [url |-> Url(<<"u", Ph("a")>>, "q" :> <<Ph("b")>>),
      headers |-> ("H" :> << <<Ph("a")>>, <<"z">> >>), body |-> <<"v", Ph("a")>>]}

\* the assertions a step can declare
Assertions == {"status=200", "status=404"}

Steps ==
    {PauseOf(d) : d \in {0, 1}}
    \cup {[PauseOf(0) EXCEPT !.StepType = "unknown"]}
    \cup {RequestOf(sh.url, sh.headers, sh.body, as, vs) :
            sh \in Shapes, as \in SeqsUpTo(Assertions, MaxAsserts),
            vs \in SeqsUpTo(StepDecls, MaxVars)}

\* the headers given on the command line
Overrides == {NoMap, "K" :> <<Ph("a")>>}

----------------------------------------------------------------------------
(* Step Engine *)

\* assertionCtrl.Assert: the outcome of one assertion on the response
AssertionResult(assertion, response) ==
    [Assertion |-> assertion,
     Success |-> IF assertion = "status=200" THEN response.StatusCode = 200
                                             ELSE response.StatusCode = 404]

\* everything a Run leaves behind except the Variable Store
Fresh ==
    /\ store0 = store
    /\ sendCalls = 0
    /\ sendOutcome = "none"
    /\ assertLog = <<>>
    /\ createdFrom = <<>>

Init ==
    /\ store = EmptyStore
    /\ overrides \in Overrides
    /\ pc = "idle"
    /\ step = NoStep
    /\ result = NoResult
    /\ err = "nil"
    /\ Fresh

\* RunPause as it would be if pause() left the step kind unset
RunPause_NoKind(S) ==
    /\ pc = "idle"
    /\ \E st \in S :
         /\ st.StepType = "pause"
         /\ \E late \in {0, 1} :
              result' = [NoResult EXCEPT !.StepTime = st.Duration * 1000000 + late]
         /\ step' = st
         /\ err' = "nil"
         /\ pc' = "returned"
         /\ UNCHANGED <<store, overrides, store0, sendCalls, sendOutcome, assertLog, createdFrom>>

\* Run, case model.Pause: the whole of pause(step.Duration)
RunPause(S) ==
    /\ pc = "idle"
    /\ \E st \in S :
         /\ st.StepType = "pause"
         /\ \E late \in {0, 1} :
              result' = [NoResult EXCEPT !.StepType = "pause",
                                         !.StepTime = st.Duration * 1000000 + late]
         /\ step' = st
         /\ err' = "nil"
         /\ pc' = "returned"
         /\ UNCHANGED <<store, overrides, store0, sendCalls, sendOutcome, assertLog, createdFrom>>
\* RunInvalid as it would be if an unknown kind were a silent no-op
RunInvalid_NoOp(S) ==
    /\ pc = "idle"
    /\ \E st \in S :
         /\ st.StepType \notin {"pause", "request"}
         /\ step' = st
         /\ result' = NoResult
         /\ err' = "nil"
         /\ pc' = "returned"
         /\ UNCHANGED <<store, overrides, store0, sendCalls, sendOutcome, assertLog, createdFrom>>

\* Run, default case
RunInvalid(S) ==
    /\ pc = "idle"
    /\ \E st \in S :
         /\ st.StepType \notin {"pause", "request"}
         /\ step' = st
         /\ result' = NoResult
         /\ err' = "invalid step_type"
         /\ pc' = "returned"
         /\ UNCHANGED <<store, overrides, store0, sendCalls, sendOutcome, assertLog, createdFrom>>

\* RequestBuild as it would be if the builder patched against a store of its
\* own, without the variables the earlier steps left
RequestBuild_OwnStore(S) ==
    /\ pc = "idle"
    /\ \E st \in S :
         /\ st.StepType = "request"
         /\ step' = st
         /\ \E qOrder \in Orders(DOMAIN ExtractUrl(st).queryParams),
               hOrder \in Orders(DOMAIN MergedHeaders(st, EmptyStore, overrides)) :
              LET c == convertAndPatchToHttpRequest(st, EmptyStore, overrides, qOrder, hOrder)
              IN  IF c.err
                  THEN /\ result' = NoResult
                       /\ err' = "impossible to convert the request"
                       /\ pc' = "returned"
                  ELSE /\ result' = [NoResult EXCEPT !.StepType = "request",
                                                     !.Request = c.req,
                                                     !.VariableApplied = c.result]
                       /\ err' = "nil"
                       /\ pc' = "send"
         /\ UNCHANGED <<store, overrides, store0, sendCalls, sendOutcome, assertLog, createdFrom>>

\* RequestBuild as it would be if each run patched against a store of its own,
\* which the other run does not write
RequestBuild_Isolated(S) ==
    /\ pc = "idle"
    /\ \E st \in S :
         /\ st.StepType = "request"
         /\ step' = st
         /\ LET own == [n \in {m \in DOMAIN store : store[m] # FormatInt(500)} |-> store[n]]
            IN  \E qOrder \in Orders(DOMAIN ExtractUrl(st).queryParams),
                   hOrder \in Orders(DOMAIN MergedHeaders(st, own, overrides)) :
                  LET c == convertAndPatchToHttpRequest(st, own, overrides, qOrder, hOrder)
                  IN  IF c.err
                      THEN /\ result' = NoResult
                           /\ err' = "impossible to convert the request"
                           /\ pc' = "returned"
                      ELSE /\ result' = [NoResult EXCEPT !.StepType = "request",
                                                         !.Request = c.req,
                                                         !.VariableApplied = c.result]
                           /\ err' = "nil"
                           /\ pc' = "send"
         /\ UNCHANGED <<store, overrides, store0, sendCalls, sendOutcome, assertLog, createdFrom>>

\* Run, case model.RequestStep: request() up to the call of client.Send
RequestBuild(S) ==
    /\ pc = "idle"
    /\ \E st \in S :
         /\ st.StepType = "request"
         /\ step' = st
         /\ \E qOrder \in Orders(DOMAIN ExtractUrl(st).queryParams),
               hOrder \in Orders(DOMAIN MergedHeaders(st, store, overrides)) :
              LET c == convertAndPatchToHttpRequest(st, store, overrides, qOrder, hOrder)
              IN  IF c.err
                  THEN /\ result' = NoResult
                       /\ err' = "impossible to convert the request"
                       /\ pc' = "returned"
                  ELSE /\ result' = [NoResult EXCEPT !.StepType = "request",
                                                     !.Request = c.req,
                                                     !.VariableApplied = c.result]
                       /\ err' = "nil"
                       /\ pc' = "send"
         /\ UNCHANGED <<store, overrides, store0, sendCalls, sendOutcome, assertLog, createdFrom>>

\* SendError as it would be if request() did not return on the error
SendError_NoReturn ==
    /\ pc = "send"
    /\ sendCalls' = sendCalls + 1
    /\ sendOutcome' = "error"
    /\ \E elapsed \in Elapsed, res \in {Res1} :
         result' = [result EXCEPT !.StepTime = elapsed,
                                  !.Response = NewResponse(res, elapsed).response]
    /\ err' = "nil"
    /\ pc' = "assert"
    /\ UNCHANGED <<store, overrides, step, store0, assertLog, createdFrom>>

\* SendError as it would be if request() returned an empty result on the error
SendError_EmptyResult ==
    /\ pc = "send"
    /\ sendCalls' = sendCalls + 1
    /\ sendOutcome' = "error"
    /\ result' = NoResult
    /\ err' = "transport"
    /\ pc' = "returned"
    /\ UNCHANGED <<store, overrides, step, store0, assertLog, createdFrom>>

\* client.Send returns an error: request() returns the result and the error
SendError ==
    /\ pc = "send"
    /\ sendCalls' = sendCalls + 1
    /\ sendOutcome' = "error"
    /\ \E elapsed \in Elapsed : result' = [result EXCEPT !.StepTime = elapsed]
    /\ err' = "transport"
    /\ pc' = "returned"
    /\ UNCHANGED <<store, overrides, step, store0, assertLog, createdFrom>>

\* SendOk as it would be if the error of model.NewResponse were dropped
SendOk_IgnoresParseError ==
    /\ pc = "send"
    /\ sendCalls' = sendCalls + 1
    /\ sendOutcome' = "ok"
    /\ \E sent \in Sent :
         LET elapsed == sent[2]
             r == NewResponse(sent[1], elapsed)
         IN  /\ result' = [result EXCEPT !.StepTime = elapsed,
                                         !.Response = IF r.err THEN NoResponse
                                                      ELSE r.response]
             /\ err' = "nil"
             /\ pc' = "assert"
    /\ UNCHANGED <<store, overrides, step, store0, assertLog, createdFrom>>

\* client.Send returns a response: request() up to the call of assertResponse
SendOk ==
    /\ pc = "send"
    /\ sendCalls' = sendCalls + 1
    /\ sendOutcome' = "ok"
    /\ \E sent \in Sent :
         LET elapsed == sent[2]
             r == NewResponse(sent[1], elapsed)
         IN  IF r.err
             THEN /\ result' = [result EXCEPT !.StepTime = elapsed]
                  /\ err' = "parse"
                  /\ pc' = "returned"
             ELSE /\ result' = [result EXCEPT !.StepTime = elapsed,
                                              !.Response = r.response]
                  /\ err' = "nil"
                  /\ pc' = "assert"
    /\ UNCHANGED <<store, overrides, step, store0, assertLog, createdFrom>>

\* AssertNext as it would be if the loop ran over the assertions backwards
AssertNext_Reversed ==
    /\ pc = "assert"
    /\ Len(result.Assertion) < Len(step.Assertions)
    /\ LET assertion == step.Assertions[Len(step.Assertions) - Len(result.Assertion)]
       IN  /\ assertLog' = Append(assertLog, assertion)
           /\ result' = [result EXCEPT !.Assertion =
                            Append(@, AssertionResult(assertion, result.Response))]
    /\ UNCHANGED <<store, overrides, pc, step, err, store0, sendCalls, sendOutcome, createdFrom>>

\* one iteration of the loop of assertResponse; the slice it builds is kept
\* in result.Assertion
AssertNext ==
    /\ pc = "assert"
    /\ Len(result.Assertion) < Len(step.Assertions)
    /\ LET assertion == step.Assertions[Len(result.Assertion) + 1]
       IN  /\ assertLog' = Append(assertLog, assertion)
           /\ result' = [result EXCEPT !.Assertion =
                            Append(@, AssertionResult(assertion, result.Response))]
    /\ UNCHANGED <<store, overrides, pc, step, err, store0, sendCalls, sendOutcome, createdFrom>>

\* request() from the return of assertResponse to its own return
Extract ==
    /\ pc = "assert"
    /\ Len(result.Assertion) = Len(step.Assertions)
    /\ LET x == attachVariablesToContext(result.Response, step.Variables, store)
       IN  /\ store' = x.store
           /\ result' = [result EXCEPT !.VariableCreated = x.result]
           /\ createdFrom' = x.from
    /\ err' = "nil"
    /\ pc' = "returned"
    /\ UNCHANGED <<overrides, step, store0, sendCalls, sendOutcome, assertLog>>

\* the scenario runner takes the result and goes on to its next step
Return ==
    /\ pc = "returned"
    /\ pc' = "idle"
    /\ step' = NoStep
    /\ result' = NoResult
    /\ err' = "nil"
    /\ store0' = store
    /\ sendCalls' = 0
    /\ sendOutcome' = "none"
    /\ assertLog' = <<>>
    /\ createdFrom' = <<>>
    /\ UNCHANGED <<store, overrides>>

Next == RunPause(Steps) \/ RunInvalid(Steps) \/ RequestBuild(Steps) \/ SendError \/ SendOk \/ AssertNext \/ Extract \/ Return

Spec == Init /\ [][Next]_vars

----------------------------------------------------------------------------
(* The Response Extractor on its own: request() stands before line 109 with *)
(* a parsed response, no assertion declared, any declaration list.          *)

ExtractStores ==
    {EmptyStore, "a" :> <<"o">>, ("a" :> <<"o">>) @@ ("b" :> <<"p">>)}

InitExtract ==
    /\ store \in ExtractStores
    /\ overrides = NoMap
    /\ pc = "assert"
    /\ \E vs \in SeqsUpTo(Decls, MaxVars) :
         step = RequestOf(Url(<<"u">>, NoMap), NoMap, <<>>, <<>>, vs)
    /\ \E response \in Responses :
         result = [NoResult EXCEPT !.StepType = "request",
                                   !.Request = [NoRequest EXCEPT !.Method = "GET",
                                                                 !.BaseURL = <<"u">>],
                                   !.Response = response,
                                   !.StepTime = response.TimeElapsed]
    /\ err = "nil"
    /\ store0 = store
    /\ sendCalls = 1
    /\ sendOutcome = "ok"
    /\ assertLog = <<>>
    /\ createdFrom = <<>>

NextExtract == Extract

SpecExtract == InitExtract /\ [][NextExtract]_vars

----------------------------------------------------------------------------
(* The ResponseTime extraction on its own: request() stands before line 109 *)
(* with a response that took any of these times.                            *)

\* elapsed times in microseconds, on both sides of the half millisecond
Durations ==
    {0, 1, 499, 500, 501, 999, 1000, 1499, 1500, 1501, 2500, 9500, 99999,
     123499, 123500, 123600, 999500}

TimeDecls ==
    {d \in Decls : d.Source = "ResponseTime"} \cup {Decl("b", "ResponseStatus", <<>>)}

InitTime ==
    /\ store \in ExtractStores
    /\ overrides = NoMap
    /\ pc = "assert"
    /\ \E vs \in SeqsUpTo(TimeDecls, MaxVars) :
         step = RequestOf(Url(<<"u">>, NoMap), NoMap, <<>>, <<>>, vs)
    /\ \E elapsed \in Durations :
         result = [NoResult EXCEPT !.StepType = "request",
                                   !.Request = [NoRequest EXCEPT !.Method = "GET",
                                                                 !.BaseURL = <<"u">>],
                                   !.Response = NewResponse(Res1, elapsed).response,
                                   !.StepTime = elapsed]
    /\ err = "nil"
    /\ store0 = store
    /\ sendCalls = 1
    /\ sendOutcome = "ok"
    /\ assertLog = <<>>
    /\ createdFrom = <<>>

NextTime == Extract

SpecTime == InitTime /\ [][NextTime]_vars

----------------------------------------------------------------------------
(* Two scenario runs on the one Variable Store of the process.  The steps   *)
(* of this run are the actions of the Step Engine; of the other run only    *)
(* what it does to the store is kept: an extraction, run to its end between *)
(* two actions of this run.                                                 *)

\* the response the steps of the other run receive
ResOther == [Res1 EXCEPT !.StatusCode = 500]

OtherResponse == NewResponse(ResOther, 1500).response

\* the declarations of the steps of the other run
OtherDecls == {Decl(n, "ResponseStatus", <<>>) : n \in Names}

\* the steps of this run
ConcSteps ==
    {RequestOf(Url(<<"u">>, NoMap), NoMap, <<"v", Ph("a")>>, <<"status=200">>, vs) :
        vs \in {<<>>, <<Decl("a", "ResponseJson", <<"msg">>)>>}}
    \cup {RequestOf(Url(<<"u", Ph("b")>>, NoMap), "H" :> << <<Ph("a")>> >>, <<>>, <<>>,
                    <<Decl("b", "ResponseHeader", XReqId)>>)}

\* attachVariablesToContext called by request() of the other run
OtherExtract ==
    /\ \E d \in OtherDecls :
         LET x == attachVariablesToContext(OtherResponse, <<d>>, store)
         IN  /\ store' = x.store
             /\ store0' = IF pc = "idle" THEN x.store ELSE store0
    /\ UNCHANGED <<overrides, pc, step, result, err, sendCalls, sendOutcome, assertLog,
                   createdFrom>>

InitConc ==
    /\ store = EmptyStore
    /\ overrides = NoMap
    /\ pc = "idle"
    /\ step = NoStep
    /\ result = NoResult
    /\ err = "nil"
    /\ Fresh

NextConc ==
    RequestBuild(ConcSteps) \/ SendError \/ SendOk \/ AssertNext \/ Extract \/ Return
    \/ OtherExtract

SpecConc == InitConc /\ [][NextConc]_vars

----------------------------------------------------------------------------
(* The Request Builder on its own: any store, any configuration, any step.  *)

Templates == {<<"x">>, <<Ph("a")>>, <<"x", Ph("b")>>}

BuildStores ==
    {EmptyStore, "a" :> <<"1">>, ("a" :> <<"1">>) @@ ("b" :> <<"2">>),
     ("a" :> <<Ph("b")>>) @@ ("b" :> <<"2">>), "a" :> <<Ph("a"), "x">>}

BuildOverrides ==
    {NoMap} \cup {"K" :> t : t \in Templates} \cup {"H" :> t : t \in Templates}
    \cup {("H" :> <<"x">>) @@ ("K" :> <<Ph("a")>>)}

BuildSteps ==
    {RequestOf(BadUrl, NoMap, <<Ph("a")>>, <<>>, <<>>)}
    \cup {RequestOf(Url(base, query), headers, body, <<>>, <<>>) :
            base \in Templates,
            query \in {NoMap, ("q" :> <<"x">>) @@ ("r" :> <<Ph("a")>>)}
                      \cup {"q" :> t : t \in Templates},
            headers \in {NoMap, "H" :> <<>>, "H" :> << <<Ph("a")>>, <<Ph("b")>> >>,
                         ("H" :> << <<"x">> >>) @@ ("G" :> << <<"x", Ph("b")>> >>)},
            body \in Templates \cup {<<>>}}

InitBuild ==
    /\ store \in BuildStores
    /\ overrides \in BuildOverrides
    /\ pc = "idle"
    /\ step = NoStep
    /\ result = NoResult
    /\ err = "nil"
    /\ Fresh

NextBuild == RequestBuild(BuildSteps)

SpecBuild == InitBuild /\ [][NextBuild]_vars

----------------------------------------------------------------------------
(* Properties of the Response Extractor (checked under SpecExtract) *)

\* request() has run the extraction and returned
Extracted == pc = "returned" /\ step.StepType = "request" /\ sendOutcome = "ok" /\ err # "parse"

Records == result.VariableCreated

\* the records that come from declaration i
RecordsOf(i) == {k \in DOMAIN createdFrom : createdFrom[k] = i}

\* the records that come from the other declarations, in their order
RECURSIVE RecordsNotOf(_, _)
RecordsNotOf(i, k) ==
    IF k > Len(Records) THEN <<>>
    ELSE (IF createdFrom[k] = i THEN <<>> ELSE <<Records[k]>>) \o RecordsNotOf(i, k + 1)

\* the declaration list without its i-th declaration
Without(vs, i) == [k \in 1..(Len(vs) - 1) |-> IF k < i THEN vs[k] ELSE vs[k + 1]]

\* name is bound alike (or unbound alike) in both stores
SameBinding(s1, s2, name) ==
    /\ (name \in DOMAIN s1) = (name \in DOMAIN s2)
    /\ name \in DOMAIN s1 => s1[name] = s2[name]

\* a ResponseJson declaration whose extraction fails on this response
JsonFails(response, d) ==
    /\ d.Name # ""
    /\ d.Source = "ResponseJson"
    /\ LET q == Query(response.Body, JsonConvertKeyName(d.Property))
       IN  q.err \/ q.val.t \notin {"string", "bool", "number"}

\* C1: every ResponseJson declaration with a non-empty name gets exactly one
\* Created record, whether its extraction succeeds or fails.
C1_OneRecordPerJsonDeclaration ==
    Extracted =>
        \A i \in DOMAIN step.Variables :
            (step.Variables[i].Name # "" /\ step.Variables[i].Source = "ResponseJson")
                => Cardinality(RecordsOf(i)) = 1

\* C6: a failing declaration leaves only error-carrying records: Run returns
\* no error, and the Variable Store and the records of the other declarations
\* are what they are when the failing declaration is not in the list.
C6_ExtractionFailureIsLocal ==
    Extracted =>
        /\ err = "nil"
        /\ \A i \in DOMAIN step.Variables :
             JsonFails(result.Response, step.Variables[i]) =>
                LET others == attachVariablesToContext(result.Response,
                                  Without(step.Variables, i), store0)
                IN  /\ RecordsOf(i) # {}
                    /\ \A k \in RecordsOf(i) :
                         /\ Records[k].Err # "nil"
                         /\ Records[k].Key = step.Variables[i].Name
                         /\ Records[k].NewValue = <<>>
                    /\ store = others.store
                    /\ RecordsNotOf(i, 1) = others.result

\* a failing declaration of a name the store already binds, followed by a
\* declaration that is extracted
C6_Witness ==
    /\ Extracted
    /\ \E i \in DOMAIN step.Variables :
         /\ JsonFails(result.Response, step.Variables[i])
         /\ step.Variables[i].Name \in DOMAIN store0
         /\ \E k \in DOMAIN Records : createdFrom[k] > i /\ Records[k].Err = "nil"

\* C8: the records are in declaration order, and a run on the same response
\* and declaration list returns the same records and writes the same values
\* whatever the Variable Store held before.
C8_ExtractionDeterministic ==
    Extracted =>
        /\ Len(createdFrom) = Len(Records)
        /\ \A k \in DOMAIN createdFrom :
             /\ createdFrom[k] \in DOMAIN step.Variables
             /\ Records[k].Key = step.Variables[createdFrom[k]].Name
        /\ \A k, l \in DOMAIN createdFrom : k < l => createdFrom[k] <= createdFrom[l]
        /\ \A s2 \in ExtractStores \cup {store0, store} :
             LET again == attachVariablesToContext(result.Response, step.Variables, s2)
             IN  /\ again.result = Records
                 /\ \A k \in DOMAIN Records :
                      Records[k].Err = "nil" =>
                          /\ Records[k].Key \in DOMAIN store
                          /\ again.store[Records[k].Key] = store[Records[k].Key]

\* an extraction over a store that was not empty, with a failing and a
\* successful declaration
C8_Witness ==
    /\ Extracted
    /\ store0 # EmptyStore
    /\ \E k, l \in DOMAIN Records :
         /\ createdFrom[k] # createdFrom[l]
         /\ Records[k].Err = "nil"
         /\ Records[l].Err # "nil"
         /\ Records[k].Key \in DOMAIN store0

HeaderPresent(response, d) ==
    /\ d.Property \in DOMAIN response.Header
    /\ Len(response.Header[d.Property]) > 0

\* C9: a ResponseHeader declaration of a present header gets one Created record
\* with the first entry, which the store binds unless a later declaration of
\* the name overwrites it; of an absent or empty header it gets no record and
\* no write.
C9_HeaderExtraction ==
    Extracted =>
        \A i \in DOMAIN step.Variables :
            LET d == step.Variables[i]
            IN  (d.Name # "" /\ d.Source = "ResponseHeader") =>
                    IF HeaderPresent(result.Response, d)
                    THEN /\ Cardinality(RecordsOf(i)) = 1
                         /\ \A k \in RecordsOf(i) :
                              Records[k] = Created(d.Name, result.Response.Header[d.Property][1])
                         /\ (\A k \in DOMAIN Records :
                                ~(createdFrom[k] > i /\ Records[k].Key = d.Name
                                  /\ Records[k].Err = "nil"))
                            => (d.Name \in DOMAIN store
                                /\ store[d.Name] = result.Response.Header[d.Property][1])
                    ELSE /\ RecordsOf(i) = {}
                         /\ (\A k \in DOMAIN Records :
                                ~(Records[k].Key = d.Name /\ Records[k].Err = "nil"))
                            => SameBinding(store, store0, d.Name)

\* a header with two entries extracted, and a declaration of an absent header
C9_Witness ==
    /\ Extracted
    /\ \E i, j \in DOMAIN step.Variables :
         /\ step.Variables[i].Source = "ResponseHeader"
         /\ step.Variables[i].Name # ""
         /\ HeaderPresent(result.Response, step.Variables[i])
         /\ Len(result.Response.Header[step.Variables[i].Property]) > 1
         /\ store[step.Variables[i].Name] = result.Response.Header[step.Variables[i].Property][1]
         /\ step.Variables[j].Source = "ResponseHeader"
         /\ step.Variables[j].Name # ""
         /\ ~HeaderPresent(result.Response, step.Variables[j])
         /\ step.Variables[j].Name \notin DOMAIN store

----------------------------------------------------------------------------
(* Properties of the Request Builder (checked under SpecBuild) *)

\* the template a header of the request was made from
HeaderTemplate(key) ==
    IF key \in DOMAIN overrides THEN overrides[key] ELSE step.Headers[key][1]

\* the number of fields of the request that differ from their template
ChangedFields ==
    (IF result.Request.Body # step.Body THEN 1 ELSE 0)
    + (IF result.Request.BaseURL # step.URL.base THEN 1 ELSE 0)
    + Cardinality({key \in DOMAIN result.Request.QueryParams :
                      result.Request.QueryParams[key] # step.URL.query[key]})
    + Cardinality({key \in DOMAIN result.Request.Headers :
                      result.Request.Headers[key] # HeaderTemplate(key)})

\* C2: the request builder returns as many Used records as there are fields
\* (body, URL, query parameters, headers, override headers) that patching
\* has changed.
C2_OneRecordPerChangedField ==
    pc = "send" => Len(result.VariableApplied) = ChangedFields

----------------------------------------------------------------------------
(* Properties of the Step Engine (checked under Spec) *)

\* C3: once client.Send has returned an error, Run has returned it, without
\* any assertion, record of extraction or change of the Variable Store.
C3_TransportFailure ==
    sendOutcome = "error" =>
        /\ pc = "returned"
        /\ err = "transport"
        /\ assertLog = <<>>
        /\ result.Assertion = <<>>
        /\ result.VariableCreated = <<>>
        /\ createdFrom = <<>>
        /\ store = store0

\* a transport failure of a step that declares assertions and variables
C3_Witness ==
    /\ sendOutcome = "error"
    /\ step.Assertions # <<>>
    /\ step.Variables # <<>>
    /\ store0 # EmptyStore

\* C4: a Request step whose URL cannot be decomposed makes Run return the
\* build error with no call of Send or Assert, no extraction and no change of
\* the Variable Store.
C4_BuildFailure ==
    (step.StepType = "request" /\ ExtractUrl(step).err) =>
        /\ pc = "returned"
        /\ err = "impossible to convert the request"
        /\ sendCalls = 0
        /\ sendOutcome = "none"
        /\ assertLog = <<>>
        /\ result.Assertion = <<>>
        /\ result.VariableCreated = <<>>
        /\ createdFrom = <<>>
        /\ store = store0

\* a build failure of a step whose body the store could patch
C4_Witness ==
    /\ step.StepType = "request"
    /\ ExtractUrl(step).err
    /\ pc = "returned"
    /\ Patch(store, step.Body) # step.Body
    /\ step.Variables # <<>>

\* C5: the assertions handed to the collaborator are, in order, a prefix of
\* the declared ones, each with its outcome at the same place of the result;
\* when the store has been written or extraction has run, all of them have
\* been handed over, once each.
C5_AssertionsBeforeExtraction ==
    /\ Len(assertLog) = Len(result.Assertion)
    /\ Len(assertLog) <= Len(step.Assertions)
    /\ \A i \in DOMAIN assertLog :
         /\ assertLog[i] = step.Assertions[i]
         /\ result.Assertion[i].Assertion = step.Assertions[i]
    /\ (store # store0 \/ result.VariableCreated # <<>> \/ Extracted)
         => assertLog = step.Assertions

\* two different assertions with different outcomes, then a write to the store
C5_Witness ==
    /\ Extracted
    /\ Len(step.Assertions) = 2
    /\ step.Assertions[1] # step.Assertions[2]
    /\ result.Assertion[1].Success # result.Assertion[2].Success
    /\ store # store0

\* the request and the Used records the builder returns for the step
CarriesRequest ==
    \E qOrder \in Orders(DOMAIN ExtractUrl(step).queryParams),
       hOrder \in Orders(DOMAIN MergedHeaders(step, store0, overrides)) :
        LET c == convertAndPatchToHttpRequest(step, store0, overrides, qOrder, hOrder)
        IN  /\ result.Request = c.req
            /\ result.VariableApplied = c.result

\* C7 as stated: whatever the outcome of a Request step, the result carries
\* the kind, the request of the step and the Used records.
C7_ResultCarriesRequest ==
    (pc = "returned" /\ step.StepType = "request") =>
        /\ result.StepType = "request"
        /\ result.Request.Method = step.Method
        /\ CarriesRequest

\* C7: when the request was built (success, transport failure, parse failure)
\* the result carries it with its Used records; on a build failure the result
\* is the empty ResultStep.
C7_ResultCarriesBuiltRequest ==
    (pc = "returned" /\ step.StepType = "request") =>
        IF ExtractUrl(step).err
        THEN result = NoResult
        ELSE /\ result.StepType = "request"
             /\ result.Request.Method = step.Method
             /\ CarriesRequest

\* a transport failure after a request that patching has changed
C7_Witness ==
    /\ pc = "returned"
    /\ err = "transport"
    /\ result.VariableApplied # <<>>
    /\ result.Request.Body # step.Body

\* C10: a Pause step returns no error and a result with nothing but the kind
\* and a time of at least the duration; no Send, no Assert, no record, no
\* change of the Variable Store.
C10_PauseOnlyTimes ==
    (pc = "returned" /\ step.StepType = "pause") =>
        /\ err = "nil"
        /\ result = [NoResult EXCEPT !.StepType = "pause", !.StepTime = result.StepTime]
        /\ result.StepTime >= step.Duration * 1000000
        /\ sendCalls = 0
        /\ sendOutcome = "none"
        /\ assertLog = <<>>
        /\ createdFrom = <<>>
        /\ store = store0

\* a pause of duration 0 while the store holds variables
C10_Witness ==
    /\ pc = "returned"
    /\ step.StepType = "pause"
    /\ step.Duration = 0
    /\ store # EmptyStore

\* C11: a step of an unknown kind makes Run return the "invalid step_type"
\* error with the empty result, and nothing else happens.
C11_InvalidKind ==
    (pc = "returned" /\ step.StepType \notin {"pause", "request"}) =>
        /\ err = "invalid step_type"
        /\ result = NoResult
        /\ sendCalls = 0
        /\ sendOutcome = "none"
        /\ assertLog = <<>>
        /\ createdFrom = <<>>
        /\ store = store0

\* a step of an unknown kind handed to Run while the store holds variables
C11_Witness ==
    /\ pc = "returned"
    /\ step.StepType = "unknown"
    /\ err = "invalid step_type"
    /\ store # EmptyStore

\* the places of the error-free records of a name in a list of records
Writes(records, name) ==
    {k \in DOMAIN records : records[k].Key = name /\ records[k].Err = "nil"}

Last(S) == CHOOSE k \in S : \A l \in S : l <= k

\* C12: no step of a run removes a key of the Variable Store, and a step
\* changes the binding of a name only to the value of the last error-free
\* record that an extraction returns for that name.
C12_LastWriteWins ==
    [][/\ DOMAIN store \subseteq DOMAIN store'
       /\ \A name \in DOMAIN store' :
            LET ks == Writes(result'.VariableCreated, name)
            IN  IF ks # {}
                THEN store'[name] = result'.VariableCreated[Last(ks)].NewValue
                ELSE name \in DOMAIN store /\ store'[name] = store[name]]_vars

\* a name bound by an earlier step and declared twice in this step, with
\* two different values: the store binds the second
C12_Witness ==
    /\ Extracted
    /\ \E k, l \in DOMAIN Records :
         /\ k < l
         /\ Records[k].Key = Records[l].Key
         /\ Records[k].Err = "nil"
         /\ Records[l].Err = "nil"
         /\ Records[k].NewValue # Records[l].NewValue
         /\ Records[k].Key \in DOMAIN store0
         /\ store0[Records[k].Key] # Records[l].NewValue
         /\ store[Records[k].Key] = Records[l].NewValue


----------------------------------------------------------------------------
(* Properties of Patch and of the merged headers (checked under SpecBuild) *)

\* the names of the placeholders of a string
NamesIn(T) == {PhName(T[i]) : i \in {j \in DOMAIN T : IsPh(T[j])}}

\* the template strings of the step and the configuration of this state
Fields ==
    {step.Body, step.URL.base}
    \cup {step.URL.query[k] : k \in DOMAIN step.URL.query}
    \cup {FlatHeaders(step)[k] : k \in DOMAIN FlatHeaders(step)}
    \cup {overrides[k] : k \in DOMAIN overrides}

\* no resolved value of a placeholder of T holds a placeholder of a name in T
NoNameOfTemplate(s, T) ==
    \A n \in NamesIn(T) \cap DOMAIN s : NamesIn(s[n]) \cap NamesIn(T) = {}

\* no resolved value of a placeholder of T holds a placeholder of a name the
\* store binds
NoBoundName(s, T) ==
    \A n \in NamesIn(T) \cap DOMAIN s : NamesIn(s[n]) \cap DOMAIN s = {}

\* C13 as stated: Patch applied twice equals Patch applied once whenever no
\* resolved value holds a placeholder of a name in the template, and so a
\* header of the configuration ends as if patched once.
C13_PatchIdempotent ==
    (pc = "send") =>
        /\ \A T \in Fields :
             NoNameOfTemplate(store, T) => Patch(store, Patch(store, T)) = Patch(store, T)
        /\ \A k \in DOMAIN overrides :
             NoNameOfTemplate(store, overrides[k]) =>
                 /\ k \in DOMAIN result.Request.Headers
                 /\ result.Request.Headers[k] = Patch(store, overrides[k])

\* C13 amended: Patch applied twice equals Patch applied once whenever no
\* resolved value of a placeholder of the template holds a placeholder of a
\* name the store binds, and then a header of the configuration ends in the
\* built request as if patched once.
C13_PatchIdempotentUnlessChained ==
    (pc = "send") =>
        /\ \A T \in Fields :
             NoBoundName(store, T) => Patch(store, Patch(store, T)) = Patch(store, T)
        /\ \A k \in DOMAIN overrides :
             NoBoundName(store, overrides[k]) =>
                 /\ k \in DOMAIN result.Request.Headers
                 /\ result.Request.Headers[k] = Patch(store, overrides[k])

\* a header of the configuration that Patch changes ends, patched twice, as
\* patched once, in a state where another template resolves to a placeholder
\* of a name that it does not hold itself and that the store binds
C13_Witness ==
    /\ pc = "send"
    /\ \E k \in DOMAIN overrides :
         /\ NoBoundName(store, overrides[k])
         /\ Patch(store, overrides[k]) # overrides[k]
         /\ result.Request.Headers[k] = Patch(store, overrides[k])
    /\ \E T \in Fields : ~NoBoundName(store, T) /\ NoNameOfTemplate(store, T)


\* C14: in the request built for a Request step, a header named by the
\* configuration carries the patched value of the configuration, whatever
\* the step declares under that name, and every other header the step
\* declares carries the patched first value of its list.
C14_OverridesWin ==
    (pc = "send") =>
        LET headers == result.Request.Headers
        IN  /\ DOMAIN headers =
                 (DOMAIN overrides) \cup {k \in DOMAIN step.Headers : Len(step.Headers[k]) > 0}
            /\ \A k \in DOMAIN headers :
                 IF k \in DOMAIN overrides
                 THEN headers[k] = Patch(store, Patch(store, overrides[k]))
                 ELSE headers[k] = Patch(store, step.Headers[k][1])

\* a header declared by the step and named by the configuration, the two
\* patched values differing, next to a header only the step declares
C14_Witness ==
    /\ pc = "send"
    /\ \E k \in (DOMAIN overrides) \cap (DOMAIN step.Headers) :
         /\ Len(step.Headers[k]) > 0
         /\ Patch(store, overrides[k]) # overrides[k]
         /\ result.Request.Headers[k] = Patch(store, overrides[k])
         /\ result.Request.Headers[k] # Patch(store, step.Headers[k][1])
    /\ \E k \in (DOMAIN step.Headers) \ (DOMAIN overrides) :
         /\ Len(step.Headers[k]) > 0
         /\ result.Request.Headers[k] = Patch(store, step.Headers[k][1])
         /\ result.Request.Headers[k] # step.Headers[k][1]


----------------------------------------------------------------------------
(* Properties of the ResponseTime extraction (checked under SpecTime) *)

\* C15: the value of a ResponseTime declaration is the elapsed time rounded
\* to the nearest whole millisecond, halves rounded up, as a decimal string:
\* for d microseconds it is floor((d + 500) / 1000), and 123.6 ms gives "124".
C15_TimeRounded ==
    Extracted =>
        LET d == result.Response.TimeElapsed
        IN  \A i \in DOMAIN step.Variables :
                (step.Variables[i].Source = "ResponseTime" /\ step.Variables[i].Name # "") =>
                    /\ Cardinality(RecordsOf(i)) = 1
                    /\ \A k \in RecordsOf(i) :
                         /\ Records[k].Err = "nil"
                         /\ Records[k].NewValue = FormatInt((d + 500) \div 1000)
                         /\ d = 123600 => Records[k].NewValue = <<"1", "2", "4">>
                    /\ (\A j \in DOMAIN step.Variables :
                           (j > i) => step.Variables[j].Name # step.Variables[i].Name)
                       => store[step.Variables[i].Name] = FormatInt((d + 500) \div 1000)

\* a response that took 123.6 ms: the store binds "124", which is neither
\* the time cut to whole milliseconds nor the old binding
C15_Witness ==
    /\ Extracted
    /\ result.Response.TimeElapsed = 123600
    /\ \E i \in DOMAIN step.Variables :
         /\ step.Variables[i].Source = "ResponseTime"
         /\ step.Variables[i].Name \in DOMAIN store0
         /\ store[step.Variables[i].Name] = <<"1", "2", "4">>
         /\ store[step.Variables[i].Name] # FormatInt(123600 \div 1000)


----------------------------------------------------------------------------
(* Properties of the Step Engine, continued (checked under Spec) *)

\* client.Send returned a response and model.NewResponse did not parse it
Unparsed == sendOutcome = "ok" /\ result.Response = NoResponse

\* C16: when the transport call succeeds and the response cannot be parsed,
\* Run returns that error with the request and the elapsed time and no
\* response, evaluates no assertion, extracts no variable and leaves the
\* Variable Store alone; records and store writes of an extraction occur
\* only in a run that has obtained a response.
C16_ParseFailure ==
    /\ (err = "parse") => Unparsed
    /\ Unparsed =>
         /\ pc = "returned"
         /\ err = "parse"
         /\ result.StepType = "request"
         /\ CarriesRequest
         /\ result.StepTime \in Elapsed
         /\ assertLog = <<>>
         /\ result.Assertion = <<>>
         /\ result.VariableCreated = <<>>
         /\ createdFrom = <<>>
         /\ store = store0
    /\ (result.VariableCreated # <<>> \/ store # store0) =>
         /\ sendOutcome = "ok"
         /\ result.Response \in Responses

\* an unparsable response to a step that declares assertions and variables
\* and whose request was patched
C16_Witness ==
    /\ Unparsed
    /\ err = "parse"
    /\ step.Assertions # <<>>
    /\ step.Variables # <<>>
    /\ result.VariableApplied # <<>>
    /\ result.StepTime > 0


\* the request in the result is the one the builder makes of the step
\* against Variable Store s
BuiltAgainst(s) ==
    \E qOrder \in Orders(DOMAIN ExtractUrl(step).queryParams),
       hOrder \in Orders(DOMAIN MergedHeaders(step, s, overrides)) :
        result.Request = convertAndPatchToHttpRequest(step, s, overrides, qOrder, hOrder).req

\* C17: the request of a step is patched with the Variable Store as the
\* earlier steps left it: the store is not written between the entry of Run
\* and the extraction, the request in the result stays the one built against
\* the store of the entry even after the extraction of the same step has
\* written, and what the extraction wrote is the store the next step is
\* built against.
C17_PatchedBeforeExtraction ==
    /\ [](/\ (pc \in {"idle", "send", "assert"}) => store = store0
          /\ (step.StepType = "request" /\ sendCalls > 0) => BuiltAgainst(store0))
    /\ [][/\ (pc = "returned" /\ pc' = "idle") => (store' = store /\ store0' = store)
          /\ (pc = "idle" /\ pc' = "send") =>
                /\ store' = store
                /\ \E qOrder \in Orders(DOMAIN ExtractUrl(step').queryParams),
                      hOrder \in Orders(DOMAIN MergedHeaders(step', store, overrides)) :
                     result'.Request =
                         convertAndPatchToHttpRequest(step', store, overrides, qOrder, hOrder).req]_vars

\* a step whose body names a variable that an earlier step left and that the
\* extraction of this step has overwritten: the request holds the old value
C17_Witness ==
    /\ Extracted
    /\ "a" \in DOMAIN store0
    /\ store["a"] # store0["a"]
    /\ Ph("a") \in {step.Body[i] : i \in DOMAIN step.Body}
    /\ result.Request.Body = Patch(store0, step.Body)
    /\ result.Request.Body # Patch(store, step.Body)
    /\ result.Request.Body # step.Body


----------------------------------------------------------------------------
(* Properties of the Response Extractor, continued (checked under SpecExtract) *)

\* C18: after attachVariablesToContext returns, the store binds every name
\* that has an error-free Created record to the value of the last such
\* record, binds every other name as before the call, and no record carries
\* both a value and an error.
C18_StoreAgreesWithRecords ==
    Extracted =>
        /\ \A name \in Names \cup {""} \cup (DOMAIN store) \cup (DOMAIN store0) :
             LET ks == Writes(Records, name)
             IN  IF ks # {}
                 THEN /\ name \in DOMAIN store
                      /\ store[name] = Records[Last(ks)].NewValue
                 ELSE SameBinding(store, store0, name)
        /\ \A k \in DOMAIN Records :
             /\ Records[k].Type = "Created"
             /\ Records[k].Err # "nil" => Records[k].NewValue = <<>>

\* one call that rebinds a name to a new value and returns only error
\* records for another name the store binds, which keeps its binding
C18_Witness ==
    /\ Extracted
    /\ \E n1, n2 \in DOMAIN store0 :
         /\ n1 # n2
         /\ Writes(Records, n1) # {}
         /\ store[n1] # store0[n1]
         /\ Writes(Records, n2) = {}
         /\ \E k \in DOMAIN Records : Records[k].Key = n2 /\ Records[k].Err # "nil"
         /\ store[n2] = store0[n2]


\* C20: a declaration with an empty name, whatever its source, has no
\* record and writes nothing, and the store and the records are those of
\* the list without it.
C20_EmptyNameSkipped ==
    Extracted =>
        /\ "" \in DOMAIN store => ("" \in DOMAIN store0 /\ store[""] = store0[""])
        /\ \A k \in DOMAIN Records : Records[k].Key # ""
        /\ \A i \in DOMAIN step.Variables :
             step.Variables[i].Name = "" =>
                LET others == attachVariablesToContext(result.Response,
                                  Without(step.Variables, i), store0)
                IN  /\ RecordsOf(i) = {}
                    /\ store = others.store
                    /\ Records = others.result

\* a declaration with an empty name that would have extracted a value, ahead
\* of a declaration that is extracted
C20_Witness ==
    /\ Extracted
    /\ \E i, j \in DOMAIN step.Variables :
         /\ i < j
         /\ step.Variables[i].Name = ""
         /\ step.Variables[i].Source = "ResponseHeader"
         /\ HeaderPresent(result.Response, step.Variables[i])
         /\ RecordsOf(j) # {}
         /\ store # store0


----------------------------------------------------------------------------
(* Properties of two concurrent runs (checked under SpecConc) *)

\* the value the extractions of the other run write
OtherValue == FormatInt(OtherResponse.StatusCode)

\* the names that the other run was the last to write
Foreign(s) == {n \in DOMAIN s : s[n] = OtherValue}

\* C19: two runs on the process-wide Variable Store are not isolated: this
\* run never extracts the value of the other run, and yet each of its
\* requests is built against the whole store as it stands at the build, the
\* bindings the other run wrote included.
C19_RunsShareStore ==
    /\ [](\A k \in DOMAIN Records : Records[k].NewValue # OtherValue)
    /\ [][(pc = "idle" /\ pc' = "send") =>
            /\ store' = store
            /\ \E qOrder \in Orders(DOMAIN ExtractUrl(step').queryParams),
                  hOrder \in Orders(DOMAIN MergedHeaders(step', store, overrides)) :
                 LET c == convertAndPatchToHttpRequest(step', store, overrides, qOrder, hOrder)
                 IN  /\ result'.Request = c.req
                     /\ result'.VariableApplied = c.result]_vars

\* a step of this run whose request holds the value the other run extracted,
\* and whose own extracted value the other run has overwritten before the
\* next step of this run reads it
C19_Witness ==
    /\ Extracted
    /\ Ph("a") \in {step.Body[i] : i \in DOMAIN step.Body}
    /\ "a" \in Foreign(store0)
    /\ result.Request.Body = <<"v">> \o OtherValue
    /\ \E k \in DOMAIN result.VariableApplied :
         /\ result.VariableApplied[k].Key = "body"
         /\ result.VariableApplied[k].NewValue = <<"v">> \o OtherValue
    /\ \E k \in DOMAIN Records :
         /\ Records[k].Key = "a"
         /\ Records[k].Err = "nil"
         /\ store["a"] # Records[k].NewValue
         /\ "a" \in Foreign(store)

====
